---- MODULE Spec2Model ----
(***************************************************************************)
(* The entry-creation form of the loan servicing front-end: the two        *)
(* CreateEntryForm components (modules/Loans/Entries.tsx and               *)
(* modules/Loans/EntryDialog.tsx), their loan-details fetch, their         *)
(* validation / adjustment step and their submit path.                     *)
(*                                                                         *)
(* A form text field holds a string.  A numeric string is modelled as the  *)
(* one-element sequence <<n>> and the empty string as <<>>, so that        *)
(* parsing (parseFloat(s || '0')) and printing (n.toString()) are not the  *)
(* identity: the empty field parses to 0 and 0 prints as "0".  Amounts are *)
(* whole currency units.  Every event handler runs to completion and the   *)
(* component re-renders before the next event, so a handler reads the      *)
(* state the previous handler left.                                        *)
(***************************************************************************)
EXTENDS Integers, Sequences, FiniteSets, TLC

VARIABLES
    impl,                  \* which CreateEntryForm: "Entries" or "EntryDialog"
    loanIdPrefill,         \* the loanIdPrefill prop: <<>> (absent) or <<id>>
    mounted,               \* the form is rendered (showCreateForm / dialog open)
    form,                  \* useState form
    validationErrors,      \* useState validationErrors: field name -> message
    baseReceivedAmount,    \* useState baseReceivedAmount
    isInterestAdjusting,   \* useState isInterestAdjusting
    isClosed,              \* useState isClosed (Entries.tsx only)
    isLoadingLoanDetails,  \* useState isLoadingLoanDetails (EntryDialog.tsx only)
    fetches,               \* GET /entries/loan/{id}/details in flight: id -> count
    pending,               \* POST /entries requests in flight
    lastEvent,             \* the handler that ran last, with its input or output
    hist,                  \* history since the last loan-details load (see InitialHist)
    \* CloseAccountDialog.tsx
    loanId,                \* the loanId prop
    isOpen,                \* the isOpen prop
    totalAmountGiven,      \* useState totalAmountGiven
    closing,               \* POST /loans/close-account requests in flight
    \* LoanList.tsx and the loans the server holds
    currentPage,           \* useState currentPage
    recordsPerPage,        \* useState recordsPerPage
    search,                \* useState search
    loansQuery,            \* useQuery(["loans", ...]): its data, and whether it is fetching
    serverLoans,           \* how many loans the server holds
    deleting,              \* DELETE /loans/{id} requests in flight
    \* LoanForm
    mode,                  \* the mode prop: "create" or "edit"
    selectedParty,         \* useState selectedParty: "existing" or "create"
    values,                \* the field values react-hook-form holds
    formErrors,            \* the fields react-hook-form holds an error for
    partyRequest,          \* createPartyMutation: "idle", "pending"
    loanRequest            \* createLoanMutation / updateLoanMutation: "idle", "pending"

vars == <<impl, loanIdPrefill, mounted, form, validationErrors, baseReceivedAmount,
          isInterestAdjusting, isClosed, isLoadingLoanDetails, fetches, pending,
          lastEvent, hist, loanId, isOpen, totalAmountGiven, closing, currentPage,
          recordsPerPage, search, loansQuery, serverLoans, deleting, mode, selectedParty,
          values, formErrors, partyRequest, loanRequest>>

\* the state of each component
closeVars == <<loanId, isOpen, totalAmountGiven, closing>>
listVars == <<currentPage, recordsPerPage, search, loansQuery, serverLoans, deleting>>
loanFormVars == <<mode, selectedParty, values, formErrors, partyRequest, loanRequest>>
entryVars == <<impl, loanIdPrefill, mounted, form, validationErrors, baseReceivedAmount, isInterestAdjusting, isClosed, isLoadingLoanDetails, fetches, pending, hist>>

(***************************************************************************)
(* Bounds of the model.                                                    *)
(***************************************************************************)
\* the user types whole amounts 0..MaxTyped (or clears the field)
MaxTyped == 2
\* at most this many loan-details fetches are in flight at once
MaxInFlight == 1
\* at most this many POST /entries requests are in flight at once
MaxPosts == 1
\* at most this many loan-details fetches race in the specification SpecFetch
MaxRacing == 2

(***************************************************************************)
(* The backend, as far as the form sees it: the answer of                  *)
(* GET /entries/loan/{id}/details for each loan.                           *)
(***************************************************************************)
LoanIds == {1, 2, 3}

LoanDetails(id) ==
    CASE id = 1 ->
           [balanceAmount |-> 1, balanceInterest |-> 0, interest |-> 5,
            calculatedInterestAmount |-> 1, totalPendingInterest |-> 1,
            nextEntryDate |-> <<"2025-02-01", "00:00:00.000Z">>, isClosed |-> FALSE]
      [] id = 2 ->
           [balanceAmount |-> 3, balanceInterest |-> 1, interest |-> 5,
            calculatedInterestAmount |-> 1, totalPendingInterest |-> 2,
            nextEntryDate |-> <<>>, isClosed |-> FALSE]
      [] OTHER ->
           [balanceAmount |-> 0, balanceInterest |-> 0, interest |-> 5,
            calculatedInterestAmount |-> 0, totalPendingInterest |-> 0,
            nextEntryDate |-> <<>>, isClosed |-> TRUE]

\* what the user can type into a numeric field
TypedAmounts == {<<>>} \cup {<<n>> : n \in 0..MaxTyped}
\* what the user can type into the loan id field
TypedLoanIds == {<<>>} \cup {<<id>> : id \in LoanIds}

(***************************************************************************)
(* String conversions.                                                     *)
(***************************************************************************)
\* n.toString()
toString(n) == <<n>>

\* parseFloat(s || '0')
ParseFloatOr0(s) == IF s = <<>> THEN 0 ELSE s[1]

\* n.toFixed(2) of a whole amount: the integer part and two decimals
ToFixed2(n) == [int |-> n, frac |-> <<0, 0>>]

\* response.nextEntryDate.split('T')[0]
SplitT0(iso) == iso[1]

\* getTodayDate()
getTodayDate == "2025-01-10"

\* what the user can leave in the received date field: a date, or nothing
TypedDates == {"", getTodayDate}

\* a field of an object that may lack it: undefined reads as absent
Opt(cond, rec) == IF cond THEN rec ELSE <<>>

Has(map, key) == key \in DOMAIN map

\* message.includes('cannot exceed')
IncludesCannotExceed(msg) == msg.text = "cannot exceed balance amount"

(***************************************************************************)
(* useState initial values.                                                *)
(***************************************************************************)
InitialForm(prefill) ==
    [loanId |-> prefill,
     entryDate |-> getTodayDate,
     balanceAmount |-> <<>>,
     balanceInterest |-> <<>>,
     interestPercentage |-> <<>>,
     interestAmount |-> <<>>,
     totalPendingInterest |-> <<>>,
     receivedDate |-> getTodayDate,
     receivedAmount |-> <<>>,
     receivedInterest |-> <<>>]

NoFetches == [id \in LoanIds |-> 0]

(***************************************************************************)
(* History variable, not program state: what the user did since the form   *)
(* last took a loan-details answer (or was mounted).                       *)
(*   typed      the amount last typed into receivedAmount, 0 if none       *)
(*   typedIdle  the amount last typed into receivedAmount while            *)
(*              isInterestAdjusting was false, 0 if none                   *)
(*   overCap    some receivedInterest edit was over the cap                *)
(*   closed     the answer the form took said isClosed                     *)
(***************************************************************************)
InitialHist == [typed |-> 0, typedIdle |-> 0, overCap |-> FALSE, closed |-> FALSE]

RECURSIVE SumOver(_, _)
SumOver(f, S) ==
    IF S = {} THEN 0
    ELSE LET x == CHOOSE y \in S : TRUE IN f[x] + SumOver(f, S \ {x})

InFlight == SumOver(fetches, LoanIds)

(***************************************************************************)
(* validateAndAdjustAmounts(updatedForm, isInterestChange), reading the    *)
(* render's baseReceivedAmount and isInterestAdjusting.  The call to       *)
(* setIsInterestAdjusting is returned as the field isInterestAdjusting.    *)
(***************************************************************************)
CapNotice(totalPendingInterest, excessInterest) ==
    [text |-> "Interest will be capped",
     capped |-> ToFixed2(totalPendingInterest),
     excess |-> ToFixed2(excessInterest)]

ExceedsBalance(adjustedReceivedAmount, balanceAmount) ==
    [text |-> "cannot exceed balance amount",
     amount |-> ToFixed2(adjustedReceivedAmount),
     balance |-> ToFixed2(balanceAmount)]

\* the errors object the step returns
BuildErrors(overCap, cap, excess, adjusted, balance) ==
    Opt(overCap, [receivedInterest |-> CapNotice(cap, excess)])
    @@ Opt(adjusted > balance, [receivedAmount |-> ExceedsBalance(adjusted, balance)])

\* Variant: the excess is taken to be the whole received interest.
validateAndAdjustAmounts_NoCapSubtracted(updatedForm, isInterestChange, base, adjusting) ==
    LET receivedInterest == ParseFloatOr0(updatedForm.receivedInterest)
        currentReceivedAmount == ParseFloatOr0(updatedForm.receivedAmount)
        totalPendingInterest == ParseFloatOr0(updatedForm.totalPendingInterest)
        balanceAmount == ParseFloatOr0(updatedForm.balanceAmount)
        overCap == isInterestChange /\ receivedInterest > totalPendingInterest
        excessInterest == receivedInterest - totalPendingInterest
        adjustedReceivedAmount ==
            IF isInterestChange
            THEN IF overCap THEN base + receivedInterest ELSE base
            ELSE currentReceivedAmount
    IN [errors |-> BuildErrors(overCap, totalPendingInterest, excessInterest,
                               adjustedReceivedAmount, balanceAmount),
        adjustedReceivedAmount |-> adjustedReceivedAmount,
        shouldUpdateReceivedAmount |-> isInterestChange /\ (overCap \/ adjusting),
        isInterestAdjusting |-> IF isInterestChange THEN overCap ELSE adjusting]

\* Variant: the excess is added to the amount the field shows, not to the base.
validateAndAdjustAmounts_Stacking(updatedForm, isInterestChange, base, adjusting) ==
    LET receivedInterest == ParseFloatOr0(updatedForm.receivedInterest)
        currentReceivedAmount == ParseFloatOr0(updatedForm.receivedAmount)
        totalPendingInterest == ParseFloatOr0(updatedForm.totalPendingInterest)
        balanceAmount == ParseFloatOr0(updatedForm.balanceAmount)
        overCap == isInterestChange /\ receivedInterest > totalPendingInterest
        excessInterest == receivedInterest - totalPendingInterest
        adjustedReceivedAmount ==
            IF isInterestChange
            THEN IF overCap THEN currentReceivedAmount + excessInterest ELSE base
            ELSE currentReceivedAmount
    IN [errors |-> BuildErrors(overCap, totalPendingInterest, excessInterest,
                               adjustedReceivedAmount, balanceAmount),
        adjustedReceivedAmount |-> adjustedReceivedAmount,
        shouldUpdateReceivedAmount |-> isInterestChange /\ (overCap \/ adjusting),
        isInterestAdjusting |-> IF isInterestChange THEN overCap ELSE adjusting]

\* Variant: a within-cap interest edit always writes the base back.
validateAndAdjustAmounts_AlwaysWrite(updatedForm, isInterestChange, base, adjusting) ==
    LET receivedInterest == ParseFloatOr0(updatedForm.receivedInterest)
        currentReceivedAmount == ParseFloatOr0(updatedForm.receivedAmount)
        totalPendingInterest == ParseFloatOr0(updatedForm.totalPendingInterest)
        balanceAmount == ParseFloatOr0(updatedForm.balanceAmount)
        overCap == isInterestChange /\ receivedInterest > totalPendingInterest
        excessInterest == receivedInterest - totalPendingInterest
        adjustedReceivedAmount ==
            IF isInterestChange
            THEN IF overCap THEN base + excessInterest ELSE base
            ELSE currentReceivedAmount
    IN [errors |-> BuildErrors(overCap, totalPendingInterest, excessInterest,
                               adjustedReceivedAmount, balanceAmount),
        adjustedReceivedAmount |-> adjustedReceivedAmount,
        shouldUpdateReceivedAmount |-> isInterestChange,
        isInterestAdjusting |-> IF isInterestChange THEN overCap ELSE adjusting]

\* Variant: a within-cap interest edit never writes the base back.
validateAndAdjustAmounts_NeverReset(updatedForm, isInterestChange, base, adjusting) ==
    LET receivedInterest == ParseFloatOr0(updatedForm.receivedInterest)
        currentReceivedAmount == ParseFloatOr0(updatedForm.receivedAmount)
        totalPendingInterest == ParseFloatOr0(updatedForm.totalPendingInterest)
        balanceAmount == ParseFloatOr0(updatedForm.balanceAmount)
        overCap == isInterestChange /\ receivedInterest > totalPendingInterest
        excessInterest == receivedInterest - totalPendingInterest
        adjustedReceivedAmount ==
            IF isInterestChange
            THEN IF overCap THEN base + excessInterest ELSE base
            ELSE currentReceivedAmount
    IN [errors |-> BuildErrors(overCap, totalPendingInterest, excessInterest,
                               adjustedReceivedAmount, balanceAmount),
        adjustedReceivedAmount |-> adjustedReceivedAmount,
        shouldUpdateReceivedAmount |-> overCap,
        isInterestAdjusting |-> IF isInterestChange THEN overCap ELSE adjusting]

validateAndAdjustAmounts(updatedForm, isInterestChange, base, adjusting) ==
    LET receivedInterest == ParseFloatOr0(updatedForm.receivedInterest)
        currentReceivedAmount == ParseFloatOr0(updatedForm.receivedAmount)
        totalPendingInterest == ParseFloatOr0(updatedForm.totalPendingInterest)
        balanceAmount == ParseFloatOr0(updatedForm.balanceAmount)
        overCap == isInterestChange /\ receivedInterest > totalPendingInterest
        excessInterest == receivedInterest - totalPendingInterest
        adjustedReceivedAmount ==
            IF isInterestChange
            THEN IF overCap THEN base + excessInterest ELSE base
            ELSE currentReceivedAmount
        shouldUpdateReceivedAmount ==
            IF isInterestChange
            THEN IF overCap THEN TRUE ELSE adjusting
            ELSE FALSE
        errors ==
            BuildErrors(overCap, totalPendingInterest, excessInterest,
                        adjustedReceivedAmount, balanceAmount)
    IN [errors |-> errors,
        adjustedReceivedAmount |-> adjustedReceivedAmount,
        shouldUpdateReceivedAmount |-> shouldUpdateReceivedAmount,
        isInterestAdjusting |-> IF isInterestChange THEN overCap ELSE adjusting]

(***************************************************************************)
(* Rendering: which controls exist and which are disabled.                 *)
(***************************************************************************)
\* the isSubmitting prop
isSubmitting == pending > 0

\* Variant: any message at all counts as blocking.
HasBlockingError_AnyMessage == DOMAIN validationErrors # {}

\* Object.keys(validationErrors).some(key => validationErrors[key] &&
\*     validationErrors[key].includes('cannot exceed'))
HasBlockingError ==
    \E key \in DOMAIN validationErrors : IncludesCannotExceed(validationErrors[key])

\* the payment inputs are rendered
PaymentFieldsShown == mounted /\ (impl = "Entries" => ~isClosed)

\* the loan id input is rendered
LoanIdFieldShown == mounted /\ loanIdPrefill = <<>>

\* the Create Entry button is rendered and enabled
SubmitEnabled ==
    /\ mounted
    /\ IF impl = "Entries"
       THEN ~isClosed /\ ~(isSubmitting \/ HasBlockingError)
       ELSE ~isSubmitting

\* the browser's check of the rendered `required` inputs before onSubmit
RequiredFilled ==
    /\ LoanIdFieldShown => form.loanId # <<>>
    /\ PaymentFieldsShown => form.receivedDate # "" /\ form.receivedInterest # <<>>

(***************************************************************************)
(* fetchLoanDetails(loanId) up to its await: the request leaves.           *)
(***************************************************************************)
StartFetch(id) ==
    /\ fetches' = [fetches EXCEPT ![id] = @ + 1]
    /\ isLoadingLoanDetails' = IF impl = "EntryDialog" THEN TRUE ELSE isLoadingLoanDetails

(***************************************************************************)
(* The form is shown: Add Entry on the Entries page, a row click in the    *)
(* loan list.  The component mounts with its initial state and its effect  *)
(* fetches the details of the prefilled loan.                              *)
(***************************************************************************)
OpenForm(id) ==
    /\ ~mounted
    /\ mounted' = TRUE
    /\ loanIdPrefill' = IF impl = "EntryDialog" THEN <<id>> ELSE loanIdPrefill
    /\ form' = InitialForm(loanIdPrefill')
    /\ validationErrors' = <<>>
    /\ baseReceivedAmount' = 0
    /\ isInterestAdjusting' = FALSE
    /\ isClosed' = FALSE
    /\ IF loanIdPrefill' # <<>>
       THEN /\ fetches' = [NoFetches EXCEPT ![loanIdPrefill'[1]] = 1]
            /\ isLoadingLoanDetails' = (impl = "EntryDialog")
       ELSE /\ fetches' = NoFetches
            /\ isLoadingLoanDetails' = FALSE
    /\ lastEvent' = [op |-> "open"]
    /\ hist' = InitialHist
    /\ UNCHANGED <<impl, pending>>
    /\ UNCHANGED <<closeVars, listVars, loanFormVars>>

(***************************************************************************)
(* The form is hidden: Hide Form, Cancel, or the dialog is dismissed.  The *)
(* component unmounts: its state is discarded and answers to its fetches   *)
(* no longer reach any state.                                              *)
(***************************************************************************)
Unmount(prefill) ==
    /\ mounted' = FALSE
    /\ loanIdPrefill' = prefill
    /\ form' = InitialForm(prefill)
    /\ validationErrors' = <<>>
    /\ baseReceivedAmount' = 0
    /\ isInterestAdjusting' = FALSE
    /\ isClosed' = FALSE
    /\ isLoadingLoanDetails' = FALSE
    /\ fetches' = NoFetches
    /\ hist' = InitialHist

\* Hide Form on the Entries page; the dialog's onOpenChange(false)
CloseForm ==
    /\ mounted
    /\ Unmount(loanIdPrefill)
    /\ lastEvent' = [op |-> "close"]
    /\ UNCHANGED <<impl, pending>>
    /\ UNCHANGED <<closeVars, listVars, loanFormVars>>

\* Variant: Cancel closes the dialog and keeps the selected loan.
CancelDialog_KeepsSelection ==
    /\ mounted
    /\ impl = "EntryDialog"
    /\ Unmount(loanIdPrefill)
    /\ lastEvent' = [op |-> "cancel"]
    /\ UNCHANGED <<impl, pending>>
    /\ UNCHANGED <<closeVars, listVars, loanFormVars>>

\* onCancel of the dialog: closes it and clears the selected loan
CancelDialog ==
    /\ mounted
    /\ impl = "EntryDialog"
    /\ Unmount(<<>>)
    /\ lastEvent' = [op |-> "cancel"]
    /\ UNCHANGED <<impl, pending>>
    /\ UNCHANGED <<closeVars, listVars, loanFormVars>>

(***************************************************************************)
(* handleChange, one action per input it is bound to.                      *)
(***************************************************************************)
ChangeLoanIdUpTo(value, limit) ==
    /\ LoanIdFieldShown
    /\ value # <<>> => InFlight < limit
    /\ form' = [form EXCEPT !.loanId = value]
    /\ IF value # <<>>
       THEN StartFetch(value[1])
       ELSE UNCHANGED <<fetches, isLoadingLoanDetails>>
    /\ lastEvent' = [op |-> "loanId", value |-> value]
    /\ UNCHANGED <<impl, loanIdPrefill, mounted, validationErrors, baseReceivedAmount,
                   isInterestAdjusting, isClosed, pending, hist>>
    /\ UNCHANGED <<closeVars, listVars, loanFormVars>>

ChangeLoanId(value) == ChangeLoanIdUpTo(value, MaxInFlight)

ChangeReceivedDate(value) ==
    /\ PaymentFieldsShown
    /\ form' = [form EXCEPT !.receivedDate = value]
    /\ lastEvent' = [op |-> "receivedDate", value |-> value]
    /\ UNCHANGED <<impl, loanIdPrefill, mounted, validationErrors, baseReceivedAmount,
                   isInterestAdjusting, isClosed, isLoadingLoanDetails, fetches, pending,
                   hist>>
    /\ UNCHANGED <<closeVars, listVars, loanFormVars>>

\* Variant: the base follows every typed amount, adjusting or not.
NextBaseReceivedAmount_Always(value, base, adjusting) == ParseFloatOr0(value)

\* the receivedAmount branch's setBaseReceivedAmount
NextBaseReceivedAmount(value, base, adjusting) ==
    LET newAmount == ParseFloatOr0(value)
    IN IF ~adjusting THEN newAmount ELSE base

\* Variant: the field is rewritten with the parsed amount.
ChangeReceivedAmount_Normalises(value) ==
    /\ PaymentFieldsShown
    /\ LET updatedForm == [form EXCEPT !.receivedAmount = value]
           validation == validateAndAdjustAmounts(updatedForm, FALSE,
                                                  baseReceivedAmount, isInterestAdjusting)
       IN /\ form' = [updatedForm EXCEPT !.receivedAmount = toString(ParseFloatOr0(value))]
          /\ baseReceivedAmount' =
                 NextBaseReceivedAmount(value, baseReceivedAmount, isInterestAdjusting)
          /\ validationErrors' = validation.errors
          /\ isInterestAdjusting' = validation.isInterestAdjusting
    /\ lastEvent' = [op |-> "receivedAmount", value |-> value]
    /\ hist' = [hist EXCEPT
                   !.typed = ParseFloatOr0(value),
                   !.typedIdle = IF ~isInterestAdjusting THEN ParseFloatOr0(value) ELSE @]
    /\ UNCHANGED <<impl, loanIdPrefill, mounted, isClosed, isLoadingLoanDetails,
                   fetches, pending>>
    /\ UNCHANGED <<closeVars, listVars, loanFormVars>>

ChangeReceivedAmount(value) ==
    /\ PaymentFieldsShown
    /\ LET updatedForm == [form EXCEPT !.receivedAmount = value]
           validation == validateAndAdjustAmounts(updatedForm, FALSE,
                                                  baseReceivedAmount, isInterestAdjusting)
       IN /\ form' = updatedForm
          /\ baseReceivedAmount' =
                 NextBaseReceivedAmount(value, baseReceivedAmount, isInterestAdjusting)
          /\ validationErrors' = validation.errors
          /\ isInterestAdjusting' = validation.isInterestAdjusting
    /\ lastEvent' = [op |-> "receivedAmount", value |-> value]
    /\ hist' = [hist EXCEPT
                   !.typed = ParseFloatOr0(value),
                   !.typedIdle = IF ~isInterestAdjusting THEN ParseFloatOr0(value) ELSE @]
    /\ UNCHANGED <<impl, loanIdPrefill, mounted, isClosed, isLoadingLoanDetails,
                   fetches, pending>>
    /\ UNCHANGED <<closeVars, listVars, loanFormVars>>

\* Variant: an over-cap interest edit also raises the cap the form holds.
ChangeReceivedInterest_RaisesCap(value) ==
    /\ PaymentFieldsShown
    /\ LET updatedForm == [form EXCEPT !.receivedInterest = value]
           validation == validateAndAdjustAmounts(updatedForm, TRUE,
                                                  baseReceivedAmount, isInterestAdjusting)
           written == IF validation.shouldUpdateReceivedAmount
                      THEN [updatedForm EXCEPT
                               !.receivedAmount = toString(validation.adjustedReceivedAmount)]
                      ELSE updatedForm
       IN /\ form' = IF validation.isInterestAdjusting
                     THEN [written EXCEPT !.totalPendingInterest = value]
                     ELSE written
          /\ validationErrors' = validation.errors
          /\ isInterestAdjusting' = validation.isInterestAdjusting
    /\ lastEvent' = [op |-> "receivedInterest", value |-> value,
                     wasAdjusting |-> isInterestAdjusting,
                     afterInterest |-> (lastEvent.op = "receivedInterest"),
                     repeated |-> (/\ lastEvent.op = "receivedInterest"
                                   /\ lastEvent.value = value)]
    /\ hist' = [hist EXCEPT
                   !.overCap = @ \/ ParseFloatOr0(value) >
                                        ParseFloatOr0(form.totalPendingInterest)]
    /\ UNCHANGED <<impl, loanIdPrefill, mounted, baseReceivedAmount, isClosed,
                   isLoadingLoanDetails, fetches, pending>>
    /\ UNCHANGED <<closeVars, listVars, loanFormVars>>

\* Variant: the amount the step writes is recorded as the base.
ChangeReceivedInterest_RecordsBase(value) ==
    /\ PaymentFieldsShown
    /\ LET updatedForm == [form EXCEPT !.receivedInterest = value]
           validation == validateAndAdjustAmounts(updatedForm, TRUE,
                                                  baseReceivedAmount, isInterestAdjusting)
       IN /\ form' = IF validation.shouldUpdateReceivedAmount
                     THEN [updatedForm EXCEPT
                              !.receivedAmount = toString(validation.adjustedReceivedAmount)]
                     ELSE updatedForm
          /\ validationErrors' = validation.errors
          /\ isInterestAdjusting' = validation.isInterestAdjusting
          /\ baseReceivedAmount' = IF validation.shouldUpdateReceivedAmount
                                   THEN validation.adjustedReceivedAmount
                                   ELSE baseReceivedAmount
    /\ lastEvent' = [op |-> "receivedInterest", value |-> value,
                     wasAdjusting |-> isInterestAdjusting,
                     afterInterest |-> (lastEvent.op = "receivedInterest"),
                     repeated |-> (/\ lastEvent.op = "receivedInterest"
                                   /\ lastEvent.value = value)]
    /\ hist' = [hist EXCEPT
                   !.overCap = @ \/ ParseFloatOr0(value) >
                                        ParseFloatOr0(form.totalPendingInterest)]
    /\ UNCHANGED <<impl, loanIdPrefill, mounted, isClosed,
                   isLoadingLoanDetails, fetches, pending>>
    /\ UNCHANGED <<closeVars, listVars, loanFormVars>>

ChangeReceivedInterest(value) ==
    /\ PaymentFieldsShown
    /\ LET updatedForm == [form EXCEPT !.receivedInterest = value]
           validation == validateAndAdjustAmounts(updatedForm, TRUE,
                                                  baseReceivedAmount, isInterestAdjusting)
       IN /\ form' = IF validation.shouldUpdateReceivedAmount
                     THEN [updatedForm EXCEPT
                              !.receivedAmount = toString(validation.adjustedReceivedAmount)]
                     ELSE updatedForm
          /\ validationErrors' = validation.errors
          /\ isInterestAdjusting' = validation.isInterestAdjusting
    /\ lastEvent' = [op |-> "receivedInterest", value |-> value,
                     wasAdjusting |-> isInterestAdjusting,
                     afterInterest |-> (lastEvent.op = "receivedInterest"),
                     repeated |-> (/\ lastEvent.op = "receivedInterest"
                                   /\ lastEvent.value = value)]
    /\ hist' = [hist EXCEPT
                   !.overCap = @ \/ ParseFloatOr0(value) >
                                        ParseFloatOr0(form.totalPendingInterest)]
    /\ UNCHANGED <<impl, loanIdPrefill, mounted, baseReceivedAmount, isClosed,
                   isLoadingLoanDetails, fetches, pending>>
    /\ UNCHANGED <<closeVars, listVars, loanFormVars>>

(***************************************************************************)
(* fetchLoanDetails after its await.                                       *)
(***************************************************************************)
ApplyDetails(prev, response) ==
    [prev EXCEPT
        !.balanceAmount = toString(response.balanceAmount),
        !.balanceInterest = toString(response.balanceInterest),
        !.interestPercentage = toString(response.interest),
        !.interestAmount = toString(response.calculatedInterestAmount),
        !.entryDate = IF response.nextEntryDate # <<>>
                      THEN SplitT0(response.nextEntryDate)
                      ELSE prev.entryDate,
        !.totalPendingInterest = toString(response.totalPendingInterest)]

\* Variant: the answer is taken without resetting the adjustment state.
FetchResolved_KeepsAdjustment(id) ==
    /\ mounted
    /\ fetches[id] > 0
    /\ fetches' = [fetches EXCEPT ![id] = @ - 1]
    /\ LET response == LoanDetails(id)
       IN /\ form' = ApplyDetails(form, response)
          /\ isClosed' = IF impl = "Entries" THEN response.isClosed ELSE isClosed
    /\ validationErrors' = <<>>
    /\ UNCHANGED <<baseReceivedAmount, isInterestAdjusting>>
    /\ isLoadingLoanDetails' = FALSE
    /\ lastEvent' = [op |-> "loaded", loanId |-> id,
                     wasAdjusting |-> isInterestAdjusting]
    /\ hist' = [InitialHist EXCEPT !.closed = LoanDetails(id).isClosed]
    /\ UNCHANGED <<impl, loanIdPrefill, mounted, pending>>
    /\ UNCHANGED <<closeVars, listVars, loanFormVars>>

FetchResolved(id) ==
    /\ mounted
    /\ fetches[id] > 0
    /\ fetches' = [fetches EXCEPT ![id] = @ - 1]
    /\ LET response == LoanDetails(id)
       IN /\ form' = ApplyDetails(form, response)
          /\ isClosed' = IF impl = "Entries" THEN response.isClosed ELSE isClosed
    /\ validationErrors' = <<>>
    /\ baseReceivedAmount' = 0
    /\ isInterestAdjusting' = FALSE
    /\ isLoadingLoanDetails' = FALSE
    /\ lastEvent' = [op |-> "loaded", loanId |-> id,
                     wasAdjusting |-> isInterestAdjusting]
    /\ hist' = [InitialHist EXCEPT !.closed = LoanDetails(id).isClosed]
    /\ UNCHANGED <<impl, loanIdPrefill, mounted, pending>>
    /\ UNCHANGED <<closeVars, listVars, loanFormVars>>

\* Variant: the catch branch runs the resets of the try branch.
FetchFailed_Resets(id) ==
    /\ mounted
    /\ fetches[id] > 0
    /\ fetches' = [fetches EXCEPT ![id] = @ - 1]
    /\ isLoadingLoanDetails' = FALSE
    /\ lastEvent' = [op |-> "fetchFailed", toast |-> "Failed to fetch loan details"]
    /\ validationErrors' = <<>>
    /\ baseReceivedAmount' = 0
    /\ isInterestAdjusting' = FALSE
    /\ UNCHANGED <<impl, loanIdPrefill, mounted, form, isClosed, pending, hist>>
    /\ UNCHANGED <<closeVars, listVars, loanFormVars>>

FetchFailed(id) ==
    /\ mounted
    /\ fetches[id] > 0
    /\ fetches' = [fetches EXCEPT ![id] = @ - 1]
    /\ isLoadingLoanDetails' = FALSE
    /\ lastEvent' = [op |-> "fetchFailed", toast |-> "Failed to fetch loan details"]
    /\ UNCHANGED <<impl, loanIdPrefill, mounted, form, validationErrors,
                   baseReceivedAmount, isInterestAdjusting, isClosed, pending, hist>>
    /\ UNCHANGED <<closeVars, listVars, loanFormVars>>

(***************************************************************************)
(* handleSubmit and the mutation it starts.                                *)
(***************************************************************************)
\* Variant: receivedAmount is always sent, 0 for an empty field.
BuildPayload_AlwaysAmount(f) ==
    [loanId |-> ParseFloatOr0(f.loanId), entryDate |-> f.entryDate]
    @@ Opt(f.receivedDate # "", [receivedDate |-> f.receivedDate])
    @@ Opt(TRUE, [receivedAmount |-> ParseFloatOr0(f.receivedAmount)])
    @@ Opt(f.receivedInterest # <<>>,
           [receivedInterest |-> ParseFloatOr0(f.receivedInterest)])

BuildPayload(f) ==
    [loanId |-> ParseFloatOr0(f.loanId), entryDate |-> f.entryDate]
    @@ Opt(f.receivedDate # "", [receivedDate |-> f.receivedDate])
    @@ Opt(f.receivedAmount # <<>>, [receivedAmount |-> ParseFloatOr0(f.receivedAmount)])
    @@ Opt(f.receivedInterest # <<>>,
           [receivedInterest |-> ParseFloatOr0(f.receivedInterest)])

handleSubmit ==
    /\ SubmitEnabled
    /\ RequiredFilled
    /\ pending < MaxPosts
    /\ pending' = pending + 1
    /\ lastEvent' = [op |-> "submit", payload |-> BuildPayload(form)]
    /\ UNCHANGED <<impl, loanIdPrefill, mounted, form, validationErrors,
                   baseReceivedAmount, isInterestAdjusting, isClosed,
                   isLoadingLoanDetails, fetches, hist>>
    /\ UNCHANGED <<closeVars, listVars, loanFormVars>>

\* the answers of POST /entries the client tells apart: with or without
\* adjustments, and the two flags of the adjustments
Responses ==
    {[id |-> 1]} \cup
    {[id |-> 1, adjustments |-> [interestAdjusted |-> i, amountAdjusted |-> a]] :
        i \in BOOLEAN, a \in BOOLEAN}

InterestAdjustedNotice == "Interest amount was adjusted"
AmountAdjustedNotice == "Received amount was adjusted"
CreatedNotice == "Entry created successfully"

\* Variant: the amount notice is shown whenever amountAdjusted is set.
onSuccessToasts_AmountAlways(data) ==
    (IF Has(data, "adjustments") /\ data.adjustments.interestAdjusted
     THEN <<InterestAdjustedNotice>> ELSE <<>>)
    \o (IF Has(data, "adjustments") /\ data.adjustments.amountAdjusted
        THEN <<AmountAdjustedNotice>> ELSE <<>>)
    \o <<CreatedNotice>>

\* the notifications onSuccess raises, in the order it raises them
onSuccessToasts(data) ==
    (IF Has(data, "adjustments") /\ data.adjustments.interestAdjusted
     THEN <<InterestAdjustedNotice>> ELSE <<>>)
    \o (IF /\ Has(data, "adjustments")
           /\ data.adjustments.amountAdjusted
           /\ ~data.adjustments.interestAdjusted
        THEN <<AmountAdjustedNotice>> ELSE <<>>)
    \o <<CreatedNotice>>

\* onSuccess: the notifications, then the form is hidden (Entries) or the
\* dialog closed and the selection cleared (EntryDialog)
MutationSuccess(data) ==
    /\ pending > 0
    /\ pending' = pending - 1
    /\ Unmount(IF impl = "EntryDialog" THEN <<>> ELSE loanIdPrefill)
    /\ lastEvent' = [op |-> "created", toast |-> CreatedNotice,
                     data |-> data, toasts |-> onSuccessToasts(data)]
    /\ UNCHANGED impl
    /\ UNCHANGED <<closeVars, listVars, loanFormVars>>

\* onError
MutationError ==
    /\ pending > 0
    /\ pending' = pending - 1
    /\ lastEvent' = [op |-> "createFailed", toast |-> "Failed to create entry"]
    /\ UNCHANGED <<impl, loanIdPrefill, mounted, form, validationErrors,
                   baseReceivedAmount, isInterestAdjusting, isClosed,
                   isLoadingLoanDetails, fetches, hist>>
    /\ UNCHANGED <<closeVars, listVars, loanFormVars>>

(***************************************************************************)
(* CloseAccountDialog.tsx.  The amount input is a number input: its value  *)
(* is the empty string or a numeric string.  The parent that renders the   *)
(* dialog owns isOpen; its onClose closes the dialog and its onSuccess may *)
(* or may not.                                                             *)
(***************************************************************************)
\* the settlement amounts typed are whole amounts -MaxSettlement..MaxSettlement
MaxSettlement == 3

\* the strings the user leaves in the totalAmountGiven input
TypedSettlements == {<<>>} \cup {toString(n) : n \in (0 - MaxSettlement)..MaxSettlement}

\* Variant: only the empty input is refused.
InvalidAmount_EmptyOnly(value) == value = <<>>

\* !totalAmountGiven || parseFloat(totalAmountGiven) < 0
InvalidAmount(value) == value = <<>> \/ value[1] < 0

\* disabled={closeAccountMutation.isPending || !totalAmountGiven}
CloseAccountEnabled == isOpen /\ ~(closing > 0 \/ totalAmountGiven = <<>>)

CloseAccountDialogInit ==
    /\ loanId = 1
    /\ isOpen = FALSE
    /\ totalAmountGiven = <<>>
    /\ closing = 0

\* the parent shows the dialog for a loan
OpenCloseAccount(id) ==
    /\ ~isOpen
    /\ isOpen' = TRUE
    /\ loanId' = id
    /\ lastEvent' = [op |-> "closeAccountOpened"]
    /\ UNCHANGED <<totalAmountGiven, closing>>
    /\ UNCHANGED <<entryVars, listVars, loanFormVars>>

\* onChange of the input
ChangeTotalAmountGiven(value) ==
    /\ isOpen
    /\ totalAmountGiven' = value
    /\ lastEvent' = [op |-> "totalAmountGiven", value |-> value]
    /\ UNCHANGED <<loanId, isOpen, closing>>
    /\ UNCHANGED <<entryVars, listVars, loanFormVars>>

\* handleSubmit of the dialog, reached through the Close Account button
CloseAccountSubmit ==
    /\ CloseAccountEnabled
    /\ IF InvalidAmount(totalAmountGiven)
       THEN /\ lastEvent' = [op |-> "closeRejected", toast |-> "Please enter a valid amount"]
            /\ closing' = closing
       ELSE /\ lastEvent' = [op |-> "closeRequested",
                             payload |-> [loanId |-> loanId,
                                          totalAmountGiven |-> totalAmountGiven[1]]]
            /\ closing' = closing + 1
    /\ UNCHANGED <<loanId, isOpen, totalAmountGiven>>
    /\ UNCHANGED <<entryVars, listVars, loanFormVars>>

\* handleClose: Cancel (disabled while the request is pending) or the
\* dialog's onOpenChange
handleClose ==
    /\ isOpen
    /\ totalAmountGiven' = <<>>
    /\ isOpen' = FALSE
    /\ lastEvent' = [op |-> "closeAccountDismissed"]
    /\ UNCHANGED <<loanId, closing>>
    /\ UNCHANGED <<entryVars, listVars, loanFormVars>>

\* closeAccountMutation.onSuccess
CloseAccountSuccess ==
    /\ closing > 0
    /\ closing' = closing - 1
    /\ totalAmountGiven' = <<>>
    /\ \E stays \in {isOpen, FALSE} : isOpen' = stays
    /\ UNCHANGED loanId
    /\ lastEvent' = [op |-> "accountClosed", toast |-> "Account closed successfully",
                     onSuccess |-> TRUE]
    /\ UNCHANGED <<entryVars, listVars, loanFormVars>>

\* closeAccountMutation.onError
CloseAccountError ==
    /\ closing > 0
    /\ closing' = closing - 1
    /\ lastEvent' = [op |-> "closeFailed", toast |-> "Failed to close account"]
    /\ UNCHANGED <<loanId, isOpen, totalAmountGiven>>
    /\ UNCHANGED <<entryVars, listVars, loanFormVars>>

(***************************************************************************)
(* LoanList.tsx: the page of loans shown and the server behind it.  The    *)
(* server answers GET /loans for a page, a page size and a search with the *)
(* number of matching loans and the number of pages they fill (at least    *)
(* one).  A change of the query key leaves the query without data until    *)
(* the answer comes; an invalidation keeps the data and refetches.         *)
(***************************************************************************)
\* the server holds at most this many loans
MaxLoans == 3
\* at most this many DELETE /loans/{id} requests are in flight at once
MaxDeletes == 1

\* the page sizes the pagination control offers
PageSizes == {1, 2}

\* the search strings the user types
Searches == {"", "a"}

\* how many of n loans a search matches: all of them, or every second one
MatchCount(text, n) == IF text = "" THEN n ELSE (n + 1) \div 2

\* the pages n loans fill, at least one
PagesFor(n, limit) == IF n = 0 THEN 1 ELSE (n + limit - 1) \div limit

\* the rows of one page
RowsOn(page, n, limit) ==
    LET before == (page - 1) * limit
    IN IF n <= before THEN 0 ELSE IF n - before < limit THEN n - before ELSE limit

\* the answer of GET /loans
LoansResponse(page, limit, text, held) ==
    LET matching == MatchCount(text, held)
    IN [totalLoans |-> matching, totalPages |-> PagesFor(matching, limit),
        loans |-> RowsOn(page, matching, limit)]

\* data of the query is undefined
NoData == <<>>

\* the query after its key changed
QueryLoading == [data |-> NoData, fetching |-> TRUE]

\* data?.totalPages || 1, the totalPages prop of the pagination control
TotalPagesShown == IF loansQuery.data = NoData THEN 1 ELSE loansQuery.data.totalPages

\* the pages the pagination control asks for: those it shows and, once data
\* is loaded, the two just outside them
OfferedPages == IF loansQuery.data = NoData THEN {1} ELSE 0..(TotalPagesShown + 1)

LoanListInit ==
    /\ currentPage = 1
    /\ recordsPerPage = 1
    /\ search = ""
    /\ loansQuery = QueryLoading
    /\ serverLoans \in 0..MaxLoans
    /\ deleting = 0

\* the query after the state that makes its key became page, limit, text
QueryAfterKey(page, limit, text) ==
    IF <<page, limit, text>> = <<currentPage, recordsPerPage, search>>
    THEN loansQuery
    ELSE QueryLoading

handleSearchChange(value) ==
    /\ search' = value
    /\ currentPage' = 1
    /\ loansQuery' = QueryAfterKey(1, recordsPerPage, value)
    /\ lastEvent' = [op |-> "search", value |-> value]
    /\ UNCHANGED <<recordsPerPage, serverLoans, deleting>>
    /\ UNCHANGED <<entryVars, closeVars, loanFormVars>>

handlePageChange(newPage) ==
    /\ newPage \in OfferedPages
    /\ LET accepted == /\ newPage > 0
                       /\ (loansQuery.data = NoData \/ newPage <= loansQuery.data.totalPages)
       IN /\ currentPage' = IF accepted THEN newPage ELSE currentPage
          /\ loansQuery' = QueryAfterKey(currentPage', recordsPerPage, search)
          /\ lastEvent' = [op |-> "page", newPage |-> newPage, accepted |-> accepted]
    /\ UNCHANGED <<recordsPerPage, search, serverLoans, deleting>>
    /\ UNCHANGED <<entryVars, closeVars, loanFormVars>>

handleRecordsPerPageChange(newLimit) ==
    /\ recordsPerPage' = newLimit
    /\ currentPage' = 1
    /\ loansQuery' = QueryAfterKey(1, newLimit, search)
    /\ lastEvent' = [op |-> "limit", newLimit |-> newLimit]
    /\ UNCHANGED <<search, serverLoans, deleting>>
    /\ UNCHANGED <<entryVars, closeVars, loanFormVars>>

\* the answer of GET /loans for the current key arrives
LoansQueryResolved ==
    /\ loansQuery.fetching
    /\ loansQuery' = [data |-> LoansResponse(currentPage, recordsPerPage, search, serverLoans),
                      fetching |-> FALSE]
    /\ lastEvent' = [op |-> "loansLoaded"]
    /\ UNCHANGED <<currentPage, recordsPerPage, search, serverLoans, deleting>>
    /\ UNCHANGED <<entryVars, closeVars, loanFormVars>>

\* Delete confirmed on a row of the table: deleteMutation.mutate(row.id)
DeleteLoan ==
    /\ loansQuery.data # NoData
    /\ loansQuery.data.loans > 0
    /\ deleting < MaxDeletes
    /\ deleting' = deleting + 1
    /\ lastEvent' = [op |-> "delete"]
    /\ UNCHANGED <<currentPage, recordsPerPage, search, loansQuery, serverLoans>>
    /\ UNCHANGED <<entryVars, closeVars, loanFormVars>>

\* deleteMutation.onSuccess: the loan is gone and the loans queries are
\* invalidated
DeleteSuccess ==
    /\ deleting > 0
    /\ deleting' = deleting - 1
    /\ serverLoans' = IF serverLoans > 0 THEN serverLoans - 1 ELSE 0
    /\ loansQuery' = [loansQuery EXCEPT !.fetching = TRUE]
    /\ lastEvent' = [op |-> "deleted", toast |-> "Loan deleted successfully"]
    /\ UNCHANGED <<currentPage, recordsPerPage, search>>
    /\ UNCHANGED <<entryVars, closeVars, loanFormVars>>

\* deleteMutation.onError
DeleteError ==
    /\ deleting > 0
    /\ deleting' = deleting - 1
    /\ lastEvent' = [op |-> "deleteFailed", toast |-> "Failed to delete loan"]
    /\ UNCHANGED <<currentPage, recordsPerPage, search, loansQuery, serverLoans>>
    /\ UNCHANGED <<entryVars, closeVars, loanFormVars>>

(***************************************************************************)
(* LoanForm.  react-hook-form holds the field values as strings and        *)
(* validates them against loanFormSchema before it calls onSubmit.  The    *)
(* fields modelled are those the schema requires, balanceAmount and the    *)
(* four party fields onSubmit requires.  When the form is left (saved,     *)
(* cancelled, or its loan could not be fetched) the next form opens with   *)
(* fresh state.                                                            *)
(***************************************************************************)
\* the parties of the dropdown, and the id the server gives a new party
ExistingParties == {7}
CreatedParties == {8}

\* the text fields of a party: empty or filled
TypedTexts == {"", "x"}

PartyFields == {"partyName", "accountNumber", "address", "mobile1"}

\* the loans GET /loans/{id} answers with in edit mode
LoanRecords ==
    {[partyId |-> 7, loanDate |-> <<"2025-01-01", "00:00:00.000Z">>, loanAmount |-> 2,
      balanceAmount |-> b, interest |-> 1] : b \in {0, 1}}

\* useForm defaultValues
defaultValues(m) ==
    [partyId |-> <<>>, loanDate |-> IF m = "create" THEN getTodayDate ELSE "",
     loanAmount |-> <<>>, balanceAmount |-> <<>>, interest |-> <<>>,
     partyName |-> "", accountNumber |-> "", address |-> "", mobile1 |-> ""]

\* Number(s): 0 for the empty string
Number(s) == IF s = <<>> THEN 0 ELSE s[1]

\* a || b on numbers
OrElse(a, b) == IF a # 0 THEN a ELSE b

\* the fields loanFormSchema refuses: partyId, loanDate, loanAmount and
\* interest must be non-empty, the others are optional
SchemaErrors(v) ==
    {name \in {"partyId", "loanAmount", "interest"} : v[name] = <<>>}
    \cup {name \in {"loanDate"} : v[name] = ""}

\* the party fields onSubmit finds empty
MissingPartyFields(v) == {name \in PartyFields : v[name] = ""}

\* isFormLoading
isFormLoading == partyRequest # "idle" \/ loanRequest # "idle"

\* the payload of POST /loans and PUT /loans/{id}
LoanPayload(v, party) ==
    [partyId |-> party, loanDate |-> v.loanDate, loanAmount |-> Number(v.loanAmount),
     balanceAmount |-> OrElse(Number(v.balanceAmount), Number(v.loanAmount)),
     interest |-> Number(v.interest)]

LoanFormIdle ==
    /\ mode = "create"
    /\ selectedParty = "existing"
    /\ values = defaultValues("create")
    /\ formErrors = {}
    /\ partyRequest = "idle"
    /\ loanRequest = "idle"

\* the form mounts: in edit mode the loan is being fetched
LoanFormInit ==
    /\ mode \in {"create", "edit"}
    /\ selectedParty = "existing"
    /\ values = defaultValues(mode)
    /\ formErrors = {}
    /\ partyRequest = "idle"
    /\ loanRequest = IF mode = "edit" THEN "fetching" ELSE "idle"

\* the form is left and the next one mounts
LoanFormLeft ==
    /\ mode' \in {"create", "edit"}
    /\ selectedParty' = "existing"
    /\ values' = defaultValues(mode')
    /\ formErrors' = {}
    /\ partyRequest' = "idle"
    /\ loanRequest' = IF mode' = "edit" THEN "fetching" ELSE "idle"

\* the Party Selection radio group, shown in create mode
SelectParty(choice) ==
    /\ mode = "create"
    /\ selectedParty' = choice
    /\ lastEvent' = [op |-> "edit"]
    /\ UNCHANGED <<mode, values, formErrors, partyRequest, loanRequest>>
    /\ UNCHANGED <<entryVars, closeVars, listVars>>

\* a party is picked in the dropdown
PickParty(id) ==
    /\ mode = "edit" \/ selectedParty = "existing"
    /\ ~isFormLoading
    /\ values' = [values EXCEPT !.partyId = toString(id)]
    /\ lastEvent' = [op |-> "edit"]
    /\ UNCHANGED <<mode, selectedParty, formErrors, partyRequest, loanRequest>>
    /\ UNCHANGED <<entryVars, closeVars, listVars>>

\* one of the party inputs, shown in create mode with Create Party selected
ChangePartyField(name, value) ==
    /\ mode = "create" /\ selectedParty = "create"
    /\ ~isFormLoading
    /\ values' = [values EXCEPT ![name] = value]
    /\ lastEvent' = [op |-> "edit"]
    /\ UNCHANGED <<mode, selectedParty, formErrors, partyRequest, loanRequest>>
    /\ UNCHANGED <<entryVars, closeVars, listVars>>

\* the loan amount input; in create mode the effect copies a non-empty
\* loan amount into balanceAmount
ChangeLoanAmount(value) ==
    /\ ~isFormLoading
    /\ values' = IF mode = "create" /\ value # <<>> /\ value # values.loanAmount
                 THEN [values EXCEPT !.loanAmount = value, !.balanceAmount = value]
                 ELSE [values EXCEPT !.loanAmount = value]
    /\ lastEvent' = [op |-> "edit"]
    /\ UNCHANGED <<mode, selectedParty, formErrors, partyRequest, loanRequest>>
    /\ UNCHANGED <<entryVars, closeVars, listVars>>

ChangeBalanceAmount(value) ==
    /\ ~isFormLoading
    /\ values' = [values EXCEPT !.balanceAmount = value]
    /\ lastEvent' = [op |-> "edit"]
    /\ UNCHANGED <<mode, selectedParty, formErrors, partyRequest, loanRequest>>
    /\ UNCHANGED <<entryVars, closeVars, listVars>>

ChangeInterest(value) ==
    /\ ~isFormLoading
    /\ values' = [values EXCEPT !.interest = value]
    /\ lastEvent' = [op |-> "edit"]
    /\ UNCHANGED <<mode, selectedParty, formErrors, partyRequest, loanRequest>>
    /\ UNCHANGED <<entryVars, closeVars, listVars>>

\* edit mode: the loan arrives and its fields are set
LoanFetched(loan) ==
    /\ loanRequest = "fetching"
    /\ values' = [values EXCEPT !.partyId = toString(loan.partyId),
                                !.loanDate = loan.loanDate[1],
                                !.loanAmount = toString(loan.loanAmount),
                                !.balanceAmount = toString(loan.balanceAmount),
                                !.interest = toString(loan.interest)]
    /\ loanRequest' = "idle"
    /\ lastEvent' = [op |-> "loanFetched"]
    /\ UNCHANGED <<mode, selectedParty, formErrors, partyRequest>>
    /\ UNCHANGED <<entryVars, closeVars, listVars>>

\* edit mode: the loan cannot be fetched, the form is left
LoanFetchFailed ==
    /\ loanRequest = "fetching"
    /\ LoanFormLeft
    /\ lastEvent' = [op |-> "loanFetchFailed", toast |-> "Failed to fetch loan details"]
    /\ UNCHANGED <<entryVars, closeVars, listVars>>

\* handleCancel
LoanFormCancel ==
    /\ ~isFormLoading
    /\ LoanFormLeft
    /\ lastEvent' = [op |-> "loanFormCancelled"]
    /\ UNCHANGED <<entryVars, closeVars, listVars>>

\* handleSubmit(onSubmit): the schema is checked, then onSubmit runs
SubmitLoanForm ==
    /\ ~isFormLoading
    /\ IF SchemaErrors(values) # {}
       THEN /\ formErrors' = SchemaErrors(values)
            /\ lastEvent' = [op |-> "schemaRefused", fields |-> SchemaErrors(values)]
            /\ UNCHANGED <<partyRequest, loanRequest>>
       ELSE IF mode = "create" /\ selectedParty = "create"
       THEN IF MissingPartyFields(values) # {}
            THEN /\ formErrors' = MissingPartyFields(values)
                 /\ lastEvent' = [op |-> "partyFieldsMissing",
                                  fields |-> MissingPartyFields(values)]
                 /\ UNCHANGED <<partyRequest, loanRequest>>
            ELSE /\ formErrors' = {}
                 /\ partyRequest' = "pending"
                 /\ lastEvent' = [op |-> "partyRequested",
                                  partyData |-> [name \in PartyFields |-> values[name]]]
                 /\ UNCHANGED loanRequest
       ELSE /\ formErrors' = {}
            /\ loanRequest' = IF mode = "create" THEN "creating" ELSE "updating"
            /\ lastEvent' = [op |-> "loanRequested", afterParty |-> FALSE,
                             payload |-> LoanPayload(values, values.partyId[1])]
            /\ UNCHANGED partyRequest
    /\ UNCHANGED <<mode, selectedParty, values>>
    /\ UNCHANGED <<entryVars, closeVars, listVars>>

\* mutateAsync resolves with the created party: the loan is created for it
PartyCreated(id) ==
    /\ partyRequest = "pending"
    /\ partyRequest' = "idle"
    /\ loanRequest' = "creating"
    /\ lastEvent' = [op |-> "loanRequested", afterParty |-> TRUE, createdParty |-> id,
                     payload |-> LoanPayload(values, id)]
    /\ UNCHANGED <<mode, selectedParty, values, formErrors>>
    /\ UNCHANGED <<entryVars, closeVars, listVars>>

\* Variant: the loan is created for the party of the form although the
\* party was not created.
PartyFailed_StillCreatesLoan ==
    /\ partyRequest = "pending"
    /\ partyRequest' = "idle"
    /\ loanRequest' = "creating"
    /\ lastEvent' = [op |-> "partyFailed", toast |-> "Failed to create party"]
    /\ UNCHANGED <<mode, selectedParty, values, formErrors>>
    /\ UNCHANGED <<entryVars, closeVars, listVars>>

\* mutateAsync rejects: onError notifies, onSubmit catches and stops
PartyFailed ==
    /\ partyRequest = "pending"
    /\ partyRequest' = "idle"
    /\ lastEvent' = [op |-> "partyFailed", toast |-> "Failed to create party"]
    /\ UNCHANGED <<mode, selectedParty, values, formErrors, loanRequest>>
    /\ UNCHANGED <<entryVars, closeVars, listVars>>

\* onSuccess of createLoanMutation / updateLoanMutation: the form is left
LoanSaved ==
    /\ loanRequest \in {"creating", "updating"}
    /\ LoanFormLeft
    /\ lastEvent' = [op |-> "loanSaved", toast |-> "Loan saved successfully"]
    /\ UNCHANGED <<entryVars, closeVars, listVars>>

\* onError of createLoanMutation / updateLoanMutation
LoanSaveFailed ==
    /\ loanRequest \in {"creating", "updating"}
    /\ loanRequest' = "idle"
    /\ lastEvent' = [op |-> "loanSaveFailed", toast |-> "Failed to save loan"]
    /\ UNCHANGED <<mode, selectedParty, values, formErrors, partyRequest>>
    /\ UNCHANGED <<entryVars, closeVars, listVars>>

(***************************************************************************)
(* The specification.                                                      *)
(***************************************************************************)
EntryFormInit ==
    /\ impl \in {"Entries", "EntryDialog"}
    /\ loanIdPrefill \in IF impl = "Entries" THEN TypedLoanIds ELSE {<<>>}
    /\ mounted = FALSE
    /\ form = InitialForm(loanIdPrefill)
    /\ validationErrors = <<>>
    /\ baseReceivedAmount = 0
    /\ isInterestAdjusting = FALSE
    /\ isClosed = FALSE
    /\ isLoadingLoanDetails = FALSE
    /\ fetches = NoFetches
    /\ pending = 0
    /\ lastEvent = [op |-> "init"]
    /\ hist = InitialHist

\* the entry form, not shown, while another component is looked at
EntryFormIdle == EntryFormInit /\ impl = "EntryDialog"

Init ==
    /\ EntryFormInit
    /\ CloseAccountDialogInit
    /\ LoanListInit /\ serverLoans = 0
    /\ LoanFormIdle

Next ==
    \/ \E id \in LoanIds : OpenForm(id)
    \/ CloseForm
    \/ CancelDialog
    \/ \E value \in TypedLoanIds : ChangeLoanId(value)
    \/ \E value \in TypedDates : ChangeReceivedDate(value)
    \/ \E value \in TypedAmounts : ChangeReceivedAmount(value)
    \/ \E value \in TypedAmounts : ChangeReceivedInterest(value)
    \/ \E id \in LoanIds : FetchResolved(id)
    \/ \E id \in LoanIds : FetchFailed(id)
    \/ handleSubmit
    \/ \E data \in Responses : MutationSuccess(data)
    \/ MutationError

Spec == Init /\ [][Next]_vars

(***************************************************************************)
(* The loan id field and the fetches it starts, on their own: the payment  *)
(* fields are left alone, up to MaxRacing fetches are in flight and every  *)
(* fetch is answered.                                                      *)
(***************************************************************************)
NextFetch ==
    \/ \E id \in LoanIds : OpenForm(id)
    \/ CloseForm
    \/ \E value \in TypedLoanIds : ChangeLoanIdUpTo(value, MaxRacing)
    \/ \E id \in LoanIds : FetchResolved(id)

SpecFetch == Init /\ [][NextFetch]_vars

(***************************************************************************)
(* CloseAccountDialog on its own.                                          *)
(***************************************************************************)
InitCloseAccount ==
    /\ EntryFormIdle
    /\ CloseAccountDialogInit
    /\ LoanListInit /\ serverLoans = 0
    /\ LoanFormIdle

NextCloseAccount ==
    \/ \E id \in LoanIds : OpenCloseAccount(id)
    \/ \E value \in TypedSettlements : ChangeTotalAmountGiven(value)
    \/ CloseAccountSubmit
    \/ handleClose
    \/ CloseAccountSuccess
    \/ CloseAccountError

SpecCloseAccount == InitCloseAccount /\ [][NextCloseAccount]_vars

(***************************************************************************)
(* LoanList on its own.                                                    *)
(***************************************************************************)
InitLoanList ==
    /\ EntryFormIdle
    /\ CloseAccountDialogInit
    /\ LoanListInit
    /\ LoanFormIdle

NextLoanList ==
    \/ \E value \in Searches : handleSearchChange(value)
    \/ \E newPage \in 0..(MaxLoans + 1) : handlePageChange(newPage)
    \/ \E newLimit \in PageSizes : handleRecordsPerPageChange(newLimit)
    \/ LoansQueryResolved
    \/ DeleteLoan
    \/ DeleteSuccess
    \/ DeleteError

SpecLoanList == InitLoanList /\ [][NextLoanList]_vars

(***************************************************************************)
(* LoanForm on its own.                                                    *)
(***************************************************************************)
InitLoanForm ==
    /\ EntryFormIdle
    /\ CloseAccountDialogInit
    /\ LoanListInit /\ serverLoans = 0
    /\ LoanFormInit

NextLoanForm ==
    \/ \E choice \in {"existing", "create"} : SelectParty(choice)
    \/ \E id \in ExistingParties : PickParty(id)
    \/ \E name \in PartyFields, value \in TypedTexts : ChangePartyField(name, value)
    \/ \E value \in TypedAmounts : ChangeLoanAmount(value)
    \/ \E value \in TypedAmounts : ChangeBalanceAmount(value)
    \/ \E value \in TypedAmounts : ChangeInterest(value)
    \/ \E loan \in LoanRecords : LoanFetched(loan)
    \/ LoanFetchFailed
    \/ LoanFormCancel
    \/ SubmitLoanForm
    \/ \E id \in CreatedParties : PartyCreated(id)
    \/ PartyFailed
    \/ LoanSaved
    \/ LoanSaveFailed

SpecLoanForm == InitLoanForm /\ [][NextLoanForm]_vars

(***************************************************************************)
(* Properties of the entry form.                                           *)
(***************************************************************************)
\* the parsed fields the validation step compares
RI == ParseFloatOr0(form.receivedInterest)
RA == ParseFloatOr0(form.receivedAmount)
TPI == ParseFloatOr0(form.totalPendingInterest)
BAL == ParseFloatOr0(form.balanceAmount)

InterestEdited == lastEvent.op = "receivedInterest"

\* C1: a receivedInterest edit that leaves the parsed interest above the
\* parsed totalPendingInterest overwrites receivedAmount with the printed
\* baseReceivedAmount + (receivedInterest - totalPendingInterest), sets
\* isInterestAdjusting and stores the cap notice built from the cap and the
\* excess, whatever the form held before and in both forms.
C1_OverCapEditAdjusts ==
    [][(InterestEdited' /\ RI' > TPI') =>
          /\ form'.receivedAmount = toString(baseReceivedAmount + (RI' - TPI'))
          /\ isInterestAdjusting'
          /\ Has(validationErrors', "receivedInterest")
          /\ validationErrors'.receivedInterest = CapNotice(TPI', RI' - TPI')]_vars

C1_Witness ==
    /\ impl = "EntryDialog"
    /\ InterestEdited
    /\ TPI > 0
    /\ RI > TPI
    /\ baseReceivedAmount > 0
    /\ lastEvent.wasAdjusting = FALSE

\* C2: a receivedInterest edit that leaves the parsed interest at or below
\* the parsed totalPendingInterest stores no receivedInterest message, clears
\* isInterestAdjusting, and writes the printed baseReceivedAmount into
\* receivedAmount if isInterestAdjusting was set before the edit; otherwise
\* receivedAmount keeps the very string it held.
C2_WithinCapEdit ==
    [][(InterestEdited' /\ RI' <= TPI') =>
          /\ ~Has(validationErrors', "receivedInterest")
          /\ ~isInterestAdjusting'
          /\ form'.receivedAmount =
                 IF isInterestAdjusting THEN toString(baseReceivedAmount)
                 ELSE form.receivedAmount]_vars

C2_Witness ==
    /\ impl = "Entries"
    /\ InterestEdited
    /\ RI <= TPI
    /\ lastEvent.wasAdjusting
    /\ baseReceivedAmount > 0
    /\ form.receivedAmount = toString(baseReceivedAmount)

\* a blocking error: a receivedAmount message that includes 'cannot exceed'
BlockingError ==
    /\ Has(validationErrors, "receivedAmount")
    /\ IncludesCannotExceed(validationErrors.receivedAmount)

\* C3: while a blocking error is present the Create Entry control is
\* disabled and no POST /entries is issued, in the Entries page form and in
\* the EntryDialog form.
C3_BlockingErrorDisablesSubmit ==
    /\ (mounted /\ BlockingError) => ~SubmitEnabled
    /\ (lastEvent.op = "submit") => ~BlockingError

\* the form holds the details of some loan
SnapshotHeld == form.balanceAmount # <<>>

\* C4: whatever edits and loads came before, no POST /entries payload
\* carries a receivedAmount greater than the balanceAmount of the snapshot
\* the form holds when it is submitted.
C4_NoPayloadAboveBalance ==
    (/\ lastEvent.op = "submit"
     /\ SnapshotHeld
     /\ Has(lastEvent.payload, "receivedAmount")) =>
        lastEvent.payload.receivedAmount <= BAL

\* C5: in every state of a mounted form, a blocking error on receivedAmount
\* is present if and only if the amount shown in receivedAmount is greater
\* than balanceAmount.
C5_BlockingErrorIffAboveBalance ==
    mounted => (BlockingError <=> RA > BAL)

\* C6: once a receivedInterest edit has been over the cap, a later
\* within-cap receivedInterest edit (any interest and amount edits in
\* between, no loan-details load) leaves receivedAmount equal to
\* baseReceivedAmount and isInterestAdjusting false.
C6_RevertRestoresBase ==
    (InterestEdited /\ RI <= TPI /\ hist.overCap) =>
        /\ RA = baseReceivedAmount
        /\ ~isInterestAdjusting

C6_Witness ==
    /\ InterestEdited
    /\ RI <= TPI
    /\ hist.overCap
    /\ lastEvent.wasAdjusting
    /\ hist.typed # baseReceivedAmount
    /\ baseReceivedAmount > 0

\* C7: in a run of consecutive receivedInterest edits (no amount edit, no
\* load in between) every over-cap edit leaves receivedAmount at
\* baseReceivedAmount plus the excess of that edit alone, with
\* baseReceivedAmount the same before and after the edit.
C7_NoAccumulation ==
    [][(InterestEdited /\ InterestEdited' /\ RI' > TPI') =>
          /\ baseReceivedAmount' = baseReceivedAmount
          /\ RA' = baseReceivedAmount + (RI' - TPI)]_vars

C7_Witness ==
    /\ InterestEdited
    /\ lastEvent.afterInterest
    /\ lastEvent.wasAdjusting
    /\ RI > TPI
    /\ RA = baseReceivedAmount + (RI - TPI)
    /\ baseReceivedAmount > 0

\* C8 as stated: in every state of a mounted form baseReceivedAmount is the
\* amount the user last typed into receivedAmount since the last load (0 if
\* none).
C8_BaseIsLastTyped ==
    mounted => baseReceivedAmount = hist.typed

\* C8 as amended: in every state of a mounted form baseReceivedAmount is
\* the amount the user last typed into receivedAmount while
\* isInterestAdjusting was false, since the last load (0 if none); an amount
\* typed while isInterestAdjusting is true does not reach it.
C8_BaseIsLastTypedWhileIdle ==
    mounted => baseReceivedAmount = hist.typedIdle

C8_Witness ==
    /\ mounted
    /\ lastEvent.op = "receivedAmount"
    /\ isInterestAdjusting
    /\ hist.typed # hist.typedIdle
    /\ baseReceivedAmount = hist.typedIdle
    /\ baseReceivedAmount > 0

\* C9: in every state of a mounted form isInterestAdjusting is true if and
\* only if the parsed receivedInterest is greater than the parsed
\* totalPendingInterest.
C9_AdjustingIffOverCap ==
    mounted => (isInterestAdjusting <=> RI > TPI)

\* C10: while the interest stands over the cap as the result of an interest
\* edit (isInterestAdjusting is set by nothing else, and cleared by a load),
\* the cap notice on receivedInterest is present; amount edits and edits of
\* other fields do not remove it.
C10_CapNoticeStays ==
    (mounted /\ isInterestAdjusting /\ RI > TPI) =>
        Has(validationErrors, "receivedInterest")

\* C11: a cap notice on receivedInterest, with no blocking error on
\* receivedAmount and no submission in flight, leaves the Create Entry
\* control enabled.
C11_CapNoticeDoesNotDisable ==
    (/\ PaymentFieldsShown
     /\ Has(validationErrors, "receivedInterest")
     /\ ~BlockingError
     /\ pending = 0) => SubmitEnabled

C11_Witness ==
    /\ impl = "Entries"
    /\ SnapshotHeld
    /\ Has(validationErrors, "receivedInterest")
    /\ ~BlockingError
    /\ pending = 0
    /\ SubmitEnabled

\* the form shows the details of loan id
HoldsSnapshotOf(id) == form = ApplyDetails(form, LoanDetails(id))

\* C12: answers for a loan id that is no longer the one in the form are
\* ignored: once no fetch is outstanding, the snapshot fields of the form
\* are those of the loan id in the form, in whatever order the answers came.
C12_StaleAnswersIgnored ==
    (/\ mounted
     /\ InFlight = 0
     /\ lastEvent.op = "loaded"
     /\ form.loanId # <<>>) => HoldsSnapshotOf(form.loanId[1])

\* C13: when the snapshot the form took says isClosed, the payment fields
\* are not editable, the Create Entry control is not available and no
\* POST /entries is issued, in the Entries page form and in the
\* EntryDialog form.
C13_ClosedLoanTakesNoPayment ==
    /\ (mounted /\ hist.closed) => (~PaymentFieldsShown /\ ~SubmitEnabled)
    /\ (lastEvent.op = "submit") => ~hist.closed

\* C14: every loan-details answer the form takes leaves validationErrors
\* empty, baseReceivedAmount 0 and isInterestAdjusting false, whatever the
\* form held before.
C14_LoadResets ==
    (lastEvent.op = "loaded") =>
        /\ validationErrors = <<>>
        /\ baseReceivedAmount = 0
        /\ ~isInterestAdjusting

C14_Witness ==
    /\ lastEvent.op = "loaded"
    /\ lastEvent.wasAdjusting
    /\ RI > TPI
    /\ RA > 0

\* C15: a failed loan-details fetch and a failed POST /entries raise an
\* error notification and nothing else: the form fields, validationErrors,
\* baseReceivedAmount and isInterestAdjusting are what they were, and the
\* form stays as open as it was.
C15_FailuresOnlyNotify ==
    [][(lastEvent'.op \in {"fetchFailed", "createFailed"}) =>
          /\ Has(lastEvent', "toast")
          /\ form' = form
          /\ validationErrors' = validationErrors
          /\ baseReceivedAmount' = baseReceivedAmount
          /\ isInterestAdjusting' = isInterestAdjusting
          /\ mounted' = mounted]_vars

C15_Witness ==
    /\ lastEvent.op = "fetchFailed"
    /\ mounted
    /\ BlockingError
    /\ isInterestAdjusting
    /\ baseReceivedAmount > 0

\* C16: the same receivedInterest edit (or the same receivedAmount edit)
\* applied a second time in a row leaves receivedAmount, baseReceivedAmount,
\* isInterestAdjusting and validationErrors as the first application left
\* them.
C16_SameEditTwice ==
    [][(/\ lastEvent.op \in {"receivedInterest", "receivedAmount"}
        /\ lastEvent'.op = lastEvent.op
        /\ lastEvent'.value = lastEvent.value) =>
          /\ form' = form
          /\ baseReceivedAmount' = baseReceivedAmount
          /\ isInterestAdjusting' = isInterestAdjusting
          /\ validationErrors' = validationErrors]_vars

C16_Witness ==
    /\ InterestEdited
    /\ lastEvent.repeated
    /\ RI > TPI
    /\ TPI > 0
    /\ baseReceivedAmount > 0

\* C17: at any time at most one loan-details fetch and at most one
\* POST /entries is in flight for the form.
C17_OneRequestAtATime ==
    /\ InFlight <= 1
    /\ pending <= 1

\* a field of the payload, 0 when the payload lacks it
PayloadAmount(payload, key) == IF Has(payload, key) THEN payload[key] ELSE 0

\* C18: for every submit, receivedInterest plus receivedAmount of the
\* payload is the receivedInterest the user typed plus baseReceivedAmount:
\* the excess interest is counted once.
C18_PayloadCarriesWhatWasEntered ==
    (lastEvent.op = "submit") =>
        PayloadAmount(lastEvent.payload, "receivedInterest")
          + PayloadAmount(lastEvent.payload, "receivedAmount")
        = RI + baseReceivedAmount

\* C19: while the form is shown, totalPendingInterest and balanceAmount
\* change only when a loan-details answer is taken; no edit of
\* receivedAmount, receivedInterest, receivedDate or the loan id, and no
\* submit, changes them.
C19_SnapshotChangesOnlyByLoad ==
    [][(mounted /\ mounted' /\ lastEvent'.op # "loaded") =>
          /\ form'.totalPendingInterest = form.totalPendingInterest
          /\ form'.balanceAmount = form.balanceAmount]_vars

C19_Witness ==
    /\ InterestEdited
    /\ SnapshotHeld
    /\ isInterestAdjusting
    /\ form.totalPendingInterest # form.receivedInterest
    /\ RA > BAL

\* C20: a receivedAmount edit sets baseReceivedAmount to the parsed typed
\* value (0 for the empty string) when isInterestAdjusting was false before
\* the edit, and leaves it unchanged when isInterestAdjusting was true.
C20_AmountEditSetsBase ==
    [][(lastEvent'.op = "receivedAmount") =>
          baseReceivedAmount' =
              IF ~isInterestAdjusting THEN ParseFloatOr0(lastEvent'.value)
              ELSE baseReceivedAmount]_vars

C20_Witness ==
    /\ lastEvent.op = "receivedAmount"
    /\ ~isInterestAdjusting
    /\ hist.overCap
    /\ lastEvent.value = toString(baseReceivedAmount)
    /\ baseReceivedAmount > 0

\* C21: a receivedAmount edit leaves the form's receivedAmount equal to the
\* raw typed string and leaves every other field of the form, receivedInterest
\* among them, and isInterestAdjusting unchanged.
C21_AmountEditKeepsRawValue ==
    [][(lastEvent'.op = "receivedAmount") =>
          /\ form' = [form EXCEPT !.receivedAmount = lastEvent'.value]
          /\ form'.receivedInterest = form.receivedInterest
          /\ isInterestAdjusting' = isInterestAdjusting]_vars

C21_Witness ==
    /\ lastEvent.op = "receivedAmount"
    /\ lastEvent.value = <<>>
    /\ form.receivedAmount = <<>>
    /\ isInterestAdjusting
    /\ baseReceivedAmount > 0

\* C22: no receivedInterest edit changes baseReceivedAmount, whether or not
\* it overwrites receivedAmount.
C22_InterestEditKeepsBase ==
    [][(lastEvent'.op = "receivedInterest") =>
          baseReceivedAmount' = baseReceivedAmount]_vars

C22_Witness ==
    /\ InterestEdited
    /\ isInterestAdjusting
    /\ baseReceivedAmount > 0
    /\ RA > baseReceivedAmount

\* the position of a notification among those raised, 0 when it is not raised
ToastIndex(toasts, notice) ==
    IF \E i \in 1..Len(toasts) : toasts[i] = notice
    THEN CHOOSE i \in 1..Len(toasts) : toasts[i] = notice
    ELSE 0

\* C23: after a successful POST /entries the interest-adjusted notice is
\* raised exactly when the response has adjustments with interestAdjusted,
\* the amount-adjusted notice exactly when it has adjustments with
\* amountAdjusted and without interestAdjusted, none of the two when the
\* response has no adjustments, and the success notice comes last.
C23_ServerAdjustmentsSurfaced ==
    (lastEvent.op = "created") =>
        LET data == lastEvent.data
            toasts == lastEvent.toasts
            adjusted == Has(data, "adjustments")
        IN /\ (ToastIndex(toasts, InterestAdjustedNotice) > 0)
                 <=> (adjusted /\ data.adjustments.interestAdjusted)
           /\ (ToastIndex(toasts, AmountAdjustedNotice) > 0)
                 <=> (/\ adjusted
                      /\ data.adjustments.amountAdjusted
                      /\ ~data.adjustments.interestAdjusted)
           /\ ToastIndex(toasts, CreatedNotice) = Len(toasts)
           /\ Len(toasts) = 1 + (IF ToastIndex(toasts, InterestAdjustedNotice) > 0 THEN 1 ELSE 0)
                              + (IF ToastIndex(toasts, AmountAdjustedNotice) > 0 THEN 1 ELSE 0)

C23_Witness ==
    /\ lastEvent.op = "created"
    /\ Has(lastEvent.data, "adjustments")
    /\ lastEvent.data.adjustments.interestAdjusted
    /\ lastEvent.data.adjustments.amountAdjusted
    /\ lastEvent.toasts = <<InterestAdjustedNotice, CreatedNotice>>

\* C24: the payload of a submit always has loanId and entryDate, and has
\* receivedDate, receivedAmount and receivedInterest each exactly when the
\* form field is not empty, with the value of the form at submit time.
C24_PayloadFields ==
    (lastEvent.op = "submit") =>
        LET payload == lastEvent.payload
        IN /\ Has(payload, "loanId") /\ payload.loanId = ParseFloatOr0(form.loanId)
           /\ Has(payload, "entryDate") /\ payload.entryDate = form.entryDate
           /\ Has(payload, "receivedDate") <=> form.receivedDate # ""
           /\ Has(payload, "receivedDate") => payload.receivedDate = form.receivedDate
           /\ Has(payload, "receivedAmount") <=> form.receivedAmount # <<>>
           /\ Has(payload, "receivedAmount") => payload.receivedAmount = RA
           /\ Has(payload, "receivedInterest") <=> form.receivedInterest # <<>>
           /\ Has(payload, "receivedInterest") => payload.receivedInterest = RI
           /\ DOMAIN payload \subseteq {"loanId", "entryDate", "receivedDate",
                                        "receivedAmount", "receivedInterest"}

C24_Witness ==
    /\ lastEvent.op = "submit"
    /\ form.receivedAmount = <<>>
    /\ ~Has(lastEvent.payload, "receivedAmount")
    /\ Has(lastEvent.payload, "receivedInterest")

\* selectedLoanId and isEntryDialogOpen of the loan list
selectedLoanId == loanIdPrefill
isEntryDialogOpen == mounted

\* C30: in EntryDialog a successful creation closes the dialog and clears
\* selectedLoanId, a failed creation changes neither, Cancel closes and
\* clears without a request, and selectedLoanId is set whenever the entry
\* form is shown.
C30_DialogLifecycle ==
    /\ []((impl = "EntryDialog" /\ isEntryDialogOpen) => selectedLoanId # <<>>)
    /\ [][(impl = "EntryDialog") =>
            /\ (lastEvent'.op = "created") =>
                   (~isEntryDialogOpen' /\ selectedLoanId' = <<>>)
            /\ (lastEvent'.op = "createFailed") =>
                   (isEntryDialogOpen' = isEntryDialogOpen /\ selectedLoanId' = selectedLoanId)
            /\ (lastEvent'.op = "cancel") =>
                   (~isEntryDialogOpen' /\ selectedLoanId' = <<>> /\ pending' = pending)]_vars

C30_Witness ==
    /\ impl = "EntryDialog"
    /\ lastEvent.op = "cancel"
    /\ ~isEntryDialogOpen
    /\ selectedLoanId = <<>>
    /\ pending = 0

(***************************************************************************)
(* Properties of the loan form, the close-account dialog and the loan list.*)
(***************************************************************************)
\* C25: in create mode with Create Party selected, submit issues no loan
\* request itself; the loan request is issued in the step the party request
\* succeeds, for the id of the party just created; when the party request
\* fails no loan request is issued; and no loan request is in flight while
\* the party request is.
C25_LoanOnlyAfterPartyCreated ==
    /\ [](partyRequest = "pending" => loanRequest = "idle")
    /\ [][/\ (lastEvent'.op = "partyRequested") => loanRequest' = "idle"
          /\ (lastEvent'.op = "loanRequested" /\ ~lastEvent'.afterParty) =>
                 ~(mode = "create" /\ selectedParty = "create")
          /\ (lastEvent'.op = "loanRequested" /\ lastEvent'.afterParty) =>
                 /\ partyRequest = "pending" /\ partyRequest' = "idle"
                 /\ lastEvent'.payload.partyId = lastEvent'.createdParty
                 /\ lastEvent'.createdParty \in CreatedParties
          /\ (partyRequest = "pending" /\ loanRequest' # "idle") =>
                 (lastEvent'.op = "loanRequested" /\ lastEvent'.afterParty)
          /\ (lastEvent'.op = "partyFailed") => loanRequest' = "idle"]_vars

C25_Witness ==
    /\ lastEvent.op = "loanRequested"
    /\ lastEvent.afterParty
    /\ lastEvent.payload.partyId \in CreatedParties
    /\ values.partyId # toString(lastEvent.payload.partyId)
    /\ loanRequest = "creating"

\* submit was pressed last: what it came to
SubmitOutcome ==
    \/ lastEvent.op \in {"schemaRefused", "partyFieldsMissing", "partyRequested"}
    \/ (lastEvent.op = "loanRequested" /\ ~lastEvent.afterParty)

\* C26: in create mode with Create Party selected, the four party fields,
\* loanDate, loanAmount and interest filled in and no existing party ever
\* picked, pressing submit issues the party-creation request.
C26_CreatePartySubmitIssuesRequest ==
    (/\ SubmitOutcome
     /\ mode = "create" /\ selectedParty = "create"
     /\ MissingPartyFields(values) = {}
     /\ values.loanDate # "" /\ values.loanAmount # <<>> /\ values.interest # <<>>
     /\ values.partyId = <<>>) => lastEvent.op = "partyRequested"

\* C27: the loan payload carries the balance amount of the form, and the
\* loan amount only when the balance field is empty.
C27_PayloadBalanceAsEntered ==
    (lastEvent.op = "loanRequested") =>
        lastEvent.payload.balanceAmount =
            IF values.balanceAmount # <<>> THEN Number(values.balanceAmount)
            ELSE Number(values.loanAmount)

\* C28: a close-account request is issued only by a submit with a non-empty
\* totalAmountGiven whose value is not negative, and carries that value; a
\* submit refused raises an error notification, issues no request and keeps
\* totalAmountGiven; a failed request keeps totalAmountGiven; a successful
\* one clears it and calls onSuccess.
C28_CloseAccountRequests ==
    [][/\ (closing' > closing) => lastEvent'.op = "closeRequested"
       /\ (lastEvent'.op = "closeRequested") =>
              /\ totalAmountGiven # <<>> /\ totalAmountGiven[1] >= 0
              /\ closing' = closing + 1
              /\ lastEvent'.payload.totalAmountGiven = totalAmountGiven[1]
              /\ totalAmountGiven' = totalAmountGiven
       /\ (lastEvent'.op = "closeRejected") =>
              /\ Has(lastEvent', "toast")
              /\ closing' = closing
              /\ totalAmountGiven' = totalAmountGiven
       /\ (lastEvent'.op = "closeFailed") => totalAmountGiven' = totalAmountGiven
       /\ (lastEvent'.op = "accountClosed") =>
              (totalAmountGiven' = <<>> /\ lastEvent'.onSuccess)]_vars

C28_Witness ==
    /\ lastEvent.op = "closeRejected"
    /\ totalAmountGiven # <<>>
    /\ totalAmountGiven[1] < 0
    /\ closing = 0
    /\ isOpen

\* C29: currentPage is within 1..totalPages of the data loaded.
C29_PageWithinLoadedPages ==
    (loansQuery.data # NoData) =>
        (currentPage >= 1 /\ currentPage <= loansQuery.data.totalPages)

====
